---- MODULE Spec2Model ----
(***************************************************************************)
(* A model of the diff core of pr-reviewer: the valid-line extractor       *)
(* (parseDiffValidLines, src/src/utils.ts), the review payload builder     *)
(* (buildReviewPayload, src/src/reporter.ts), the result mergers           *)
(* (mergeReviews, src/unnamed/part_005; mergeArchReviews,                  *)
(* src/src/arch-review.ts), the diff splitter and batcher (splitDiffByFile *)
(* and batchDiffChunks, src/src/utils.ts), the exclusion filter            *)
(* (filterDiffs), the multi-batch path of runCodexReview and runArchReview *)
(* and the end of run(): posting the review (postPrReview, postPrComment,  *)
(* src/src/local.ts) and the cleanup.                                      *)
(*                                                                         *)
(* A diff is a sequence of lines.  A line is kept as the record of what    *)
(* the two regular expressions and the startsWith tests of the parser can  *)
(* see of it: its kind, and for a header the captured path or numbers.     *)
(*   file       matches /^diff --git a\/.+ b\/(.+)$/        (path)         *)
(*   hunk       matches /^@@ -\d+(?:,\d+)? \+(\d+)(?:,(\d+))? @@/          *)
(*              (start = parseInt of group 1, count = group 2)             *)
(*   plus       starts with "+"   (an addition, also "+++ b/x")            *)
(*   minus      starts with "-"   (a deletion, also "--- a/x")             *)
(*   space      starts with " "   (a context line)                         *)
(*   backslash  starts with "\"   ("\ No newline at end of file")          *)
(*   text       anything else: "index 1..2", "", a malformed "@@ ..."      *)
(***************************************************************************)
EXTENDS Integers, Sequences, FiniteSets, TLC

\* ------------------------------------------------------------------ bounds

\* Longest diff, in lines, that the parser specification reads.
MaxLines == 5

\* Longest review.findings list handed to buildReviewPayload.
MaxFindings == 2

\* Longest archReview.violations list handed to buildReviewPayload.
MaxViolations == 1

\* Longest list of partial results handed to mergeReviews and mergeArchReviews.
MaxPartials == 3

\* The longest fragment list given to batchDiffChunks.
MaxFragments == 3

\* The longest diff given to splitDiffByFile, in pieces of text.
MaxDiffChars == 5

\* The most batches of a run, and the largest concurrency limit.
MaxBatches == 3

MaxConcurrency == 2

\* The most fragments in a list given to filterDiffs.
MaxFiltered == 3

\* ------------------------------------------------------------------ values

Null == "null"

Paths == {"a.ts", "b.ts"}

\* The hunk headers of the model, as <<new-start, new-count>>: "@@ -1,1 +1,2 @@"
\* and "@@ -3 +3 @@" (an omitted count is 1).
HunkHeaderValues == {<<1, 2>>, <<3, 1>>}

FileHeader(p) == [kind |-> "file", path |-> p, start |-> 0, count |-> 0]

HunkHeader(s, c) == [kind |-> "hunk", path |-> Null, start |-> s, count |-> c]

BodyLine(k) == [kind |-> k, path |-> Null, start |-> 0, count |-> 0]

PlusLine == BodyLine("plus")

MinusLine == BodyLine("minus")

SpaceLine == BodyLine("space")

BackslashLine == BodyLine("backslash")

TextLine == BodyLine("text")

Max(S) == CHOOSE x \in S : \A y \in S : y <= x

Min(S) == CHOOSE x \in S : \A y \in S : x <= y

\* ------------------------------------------------- parseDiffValidLines

EmptyMap == [p \in {} |-> {}]

\* The parser's locals before the first line.
ParserInit == [result |-> EmptyMap, currentFile |-> Null, newLine |-> 0, inHunk |-> FALSE]

\* if (!result.has(f)) result.set(f, new Set())
EnsureKey(m, f) == [p \in (DOMAIN m) \cup {f} |-> IF p \in DOMAIN m THEN m[p] ELSE {}]

\* fileLines.add(n) on the set of file f
AddLine(m, f, n) == [m EXCEPT ![f] = @ \cup {n}]

OnFileHeaderNoReset(st, line) ==
    [st EXCEPT !.result = EnsureKey(st.result, line.path), !.currentFile = line.path]

OnFileHeader(st, line) ==
    [st EXCEPT !.result = EnsureKey(st.result, line.path),
               !.currentFile = line.path,
               !.inHunk = FALSE]

OnHunkHeaderContinuesCursor(st, line) ==
    [st EXCEPT !.newLine = IF st.inHunk THEN st.newLine ELSE line.start, !.inHunk = TRUE]

OnHunkHeader(st, line) == [st EXCEPT !.newLine = line.start, !.inHunk = TRUE]

OnAdditionNoAdvance(st) ==
    [st EXCEPT !.result = AddLine(st.result, st.currentFile, st.newLine)]

OnAddition(st) ==
    [st EXCEPT !.result = AddLine(st.result, st.currentFile, st.newLine),
               !.newLine = @ + 1]

OnDeletionAdvances(st) == [st EXCEPT !.newLine = @ + 1]

OnDeletion(st) == st

OnContextNoAdvance(st) ==
    [st EXCEPT !.result = AddLine(st.result, st.currentFile, st.newLine)]

OnContext(st) ==
    [st EXCEPT !.result = AddLine(st.result, st.currentFile, st.newLine),
               !.newLine = @ + 1]

OnNoNewlineAdvances(st) == [st EXCEPT !.newLine = @ + 1]

OnNoNewline(st) == st

OnOtherStaysInHunk(st) == st

OnOther(st) == [st EXCEPT !.inHunk = FALSE]

\* One iteration of the loop over diff.split("\n").
ParseLine(st, line) ==
    IF line.kind = "file" THEN OnFileHeader(st, line)
    ELSE IF line.kind = "hunk" /\ st.currentFile # Null THEN OnHunkHeader(st, line)
    ELSE IF ~st.inHunk \/ st.currentFile = Null THEN st
    ELSE IF line.kind = "plus" THEN OnAddition(st)
    ELSE IF line.kind = "minus" THEN OnDeletion(st)
    ELSE IF line.kind = "space" THEN OnContext(st)
    ELSE IF line.kind = "backslash" THEN OnNoNewline(st)
    ELSE OnOther(st)

RECURSIVE ParseFrom(_, _, _)
ParseFrom(st, d, i) == IF i > Len(d) THEN st ELSE ParseFrom(ParseLine(st, d[i]), d, i + 1)

\* The value parseDiffValidLines returns for the diff d.
ParseDiffValidLines(d) == ParseFrom(ParserInit, d, 1).result

\* All sequences over S of length at most n.
SeqsUpTo(S, n) == UNION {[1..k -> S] : k \in 0..n}

\* -------------------------------------------------- buildReviewPayload

\* archReview = null
NullArch == [null |-> TRUE]

\* The comment body, kept as what its rendering depends on: the header line
\* (finding or ARCH), the severity, and whether "if (x.suggestion)" appended the
\* fenced suggestion block.
\* if (x): neither the empty string nor an absent value.
Truthy(x) == x # "" /\ x # Null

\* The block is rendered for every suggestion that is not absent.
BuildCommentBodyBlockUnlessAbsent(finding) ==
    [from |-> "finding", severity |-> finding.severity,
     suggestionBlock |-> finding.suggestion # Null]

BuildCommentBody(finding) ==
    [from |-> "finding", severity |-> finding.severity,
     suggestionBlock |-> Truthy(finding.suggestion)]

BuildArchViolationCommentBody(violation) ==
    [from |-> "violation", severity |-> violation.severity,
     suggestionBlock |-> Truthy(violation.suggestion)]

Severities == {"critical", "warning", "suggestion", "nitpick"}

SeverityCount(findings, sev) ==
    Cardinality({i \in 1..Len(findings) : findings[i].severity = sev})

\* A test or lint result that is null.
NullResult == [null |-> TRUE]

\* The section of the body for the tests or for the linter.
StepSection(stepResult) ==
    IF stepResult = NullResult THEN "none"
    ELSE IF stepResult.success THEN "passed" ELSE "failed"

\* The summary body, kept as review.summary, the rows of the findings table
\* (one row per severity with a count above 0, none when there is no finding)
\* and what the sections for the tests, the linter, the architecture review
\* (its score, -2 when there is no section) and the excluded files show.
BuildSummaryBody(review, testResult, lintResult, archReview, excludedFiles) ==
    [summary |-> review.summary,
     rows |-> [sev \in {x \in Severities : SeverityCount(review.findings, x) > 0}
                  |-> SeverityCount(review.findings, sev)],
     tests |-> StepSection(testResult),
     linting |-> StepSection(lintResult),
     architecture |-> IF archReview = NullArch THEN -2 ELSE archReview.conformance_score,
     excluded |-> Len(excludedFiles)]

MapVerdictDefaultApproves(verdict) ==
    CASE verdict = "request_changes" -> "REQUEST_CHANGES"
      [] verdict = "comment" -> "COMMENT"
      [] OTHER -> "APPROVE"

MapVerdict(verdict) ==
    CASE verdict = "approve" -> "APPROVE"
      [] verdict = "request_changes" -> "REQUEST_CHANGES"
      [] OTHER -> "COMMENT"

FindingCommentNoLineCheck(validLines, finding) ==
    IF finding.file \notin DOMAIN validLines THEN <<>>
    ELSE <<[path |-> finding.file, line |-> finding.line, body |-> BuildCommentBody(finding)]>>

FindingCommentUnknownFileKept(validLines, finding) ==
    IF finding.file \in DOMAIN validLines /\ finding.line \notin validLines[finding.file]
    THEN <<>>
    ELSE <<[path |-> finding.file, line |-> finding.line, body |-> BuildCommentBody(finding)]>>

\* The body of the loop over review.findings: the comment pushed, if any.
FindingComment(validLines, finding) ==
    IF finding.file \notin DOMAIN validLines THEN <<>>
    ELSE IF finding.line \notin validLines[finding.file] THEN <<>>
    ELSE <<[path |-> finding.file, line |-> finding.line, body |-> BuildCommentBody(finding)]>>

\* The body of the loop over archReview.violations.
ViolationComment(validLines, violation) ==
    IF violation.file \notin DOMAIN validLines THEN <<>>
    ELSE IF violation.line \notin validLines[violation.file] THEN <<>>
    ELSE <<[path |-> violation.file, line |-> violation.line,
            body |-> BuildArchViolationCommentBody(violation)]>>

RECURSIVE FindingCommentsBreak(_, _, _)
FindingCommentsBreak(validLines, findings, i) ==
    IF i > Len(findings) THEN <<>>
    ELSE IF FindingComment(validLines, findings[i]) = <<>> THEN <<>>
    ELSE FindingComment(validLines, findings[i])
            \o FindingCommentsBreak(validLines, findings, i + 1)

RECURSIVE FindingComments(_, _, _)
FindingComments(validLines, findings, i) ==
    IF i > Len(findings) THEN <<>>
    ELSE FindingComment(validLines, findings[i])
            \o FindingComments(validLines, findings, i + 1)

RECURSIVE ViolationComments(_, _, _)
ViolationComments(validLines, violations, i) ==
    IF i > Len(violations) THEN <<>>
    ELSE ViolationComment(validLines, violations[i])
            \o ViolationComments(validLines, violations, i + 1)

\* The body is built from the findings that have a comment.
BuildReviewPayloadCountsCommented(review, d, testResult, lintResult, archReview, excludedFiles) ==
    LET validLines == ParseDiffValidLines(d)
        Commented(f) == FindingComment(validLines, f) # <<>>
    IN
    [event |-> MapVerdict(review.verdict),
     body |-> BuildSummaryBody([review EXCEPT !.findings = SelectSeq(@, Commented)],
                               testResult, lintResult, archReview, excludedFiles),
     comments |->
        FindingComments(validLines, review.findings, 1)
        \o (IF archReview = NullArch THEN <<>>
            ELSE ViolationComments(validLines, archReview.violations, 1))]

\* The event follows the findings: a critical one asks for changes.
BuildReviewPayloadEscalates(review, d, testResult, lintResult, archReview, excludedFiles) ==
    LET validLines == ParseDiffValidLines(d) IN
    [event |-> IF SeverityCount(review.findings, "critical") > 0
               THEN "REQUEST_CHANGES" ELSE MapVerdict(review.verdict),
     body |-> BuildSummaryBody(review, testResult, lintResult, archReview, excludedFiles),
     comments |->
        FindingComments(validLines, review.findings, 1)
        \o (IF archReview = NullArch THEN <<>>
            ELSE ViolationComments(validLines, archReview.violations, 1))]

\* The payload buildReviewPayload returns.  meta is not read.
BuildReviewPayload(review, d, testResult, lintResult, archReview, excludedFiles) ==
    LET validLines == ParseDiffValidLines(d) IN
    [event |-> MapVerdict(review.verdict),
     body |-> BuildSummaryBody(review, testResult, lintResult, archReview, excludedFiles),
     comments |->
        FindingComments(validLines, review.findings, 1)
        \o (IF archReview = NullArch THEN <<>>
            ELSE ViolationComments(validLines, archReview.violations, 1))]

\* ------------------------------------- mergeReviews and mergeArchReviews

\* A text is kept as the sequence of its pieces; "" is <<>>.
RECURSIVE Join(_, _)
Join(texts, sep) ==
    IF texts = <<>> THEN <<>>
    ELSE IF Len(texts) = 1 THEN texts[1]
    ELSE texts[1] \o <<sep>> \o Join(Tail(texts), sep)

VERDICT_SEVERITY(verdict) ==
    CASE verdict = "approve" -> 0
      [] verdict = "comment" -> 1
      [] verdict = "request_changes" -> 2

MergeReviewsStepPrepends(acc, r) ==
    [allFindings |-> r.findings \o acc.allFindings,
     summaries |-> IF r.summary # <<>> THEN Append(acc.summaries, r.summary) ELSE acc.summaries,
     worstVerdict |->
        IF VERDICT_SEVERITY(r.verdict) > VERDICT_SEVERITY(acc.worstVerdict)
        THEN r.verdict ELSE acc.worstVerdict]

MergeReviewsStepLast(acc, r) ==
    [allFindings |-> acc.allFindings \o r.findings,
     summaries |-> IF r.summary # <<>> THEN Append(acc.summaries, r.summary) ELSE acc.summaries,
     worstVerdict |-> r.verdict]

\* The body of the loop of mergeReviews.
MergeReviewsStep(acc, r) ==
    [allFindings |-> acc.allFindings \o r.findings,
     summaries |-> IF r.summary # <<>> THEN Append(acc.summaries, r.summary) ELSE acc.summaries,
     worstVerdict |->
        IF VERDICT_SEVERITY(r.verdict) > VERDICT_SEVERITY(acc.worstVerdict)
        THEN r.verdict ELSE acc.worstVerdict]

RECURSIVE MergeReviewsFrom(_, _, _)
MergeReviewsFrom(acc, results, i) ==
    IF i > Len(results) THEN acc
    ELSE MergeReviewsFrom(MergeReviewsStep(acc, results[i]), results, i + 1)

MergeReviews(results) ==
    LET acc == MergeReviewsFrom(
                [allFindings |-> <<>>, summaries |-> <<>>, worstVerdict |-> "approve"],
                results, 1)
    IN [summary |-> Join(acc.summaries, "\n\n"),
        findings |-> acc.allFindings,
        verdict |-> acc.worstVerdict]

MergeArchReviewsStepNoSignCheck(acc, r) ==
    [allViolations |-> acc.allViolations \o r.violations,
     summaries |-> IF r.summary # <<>> THEN Append(acc.summaries, r.summary) ELSE acc.summaries,
     worstScore |->
        IF r.conformance_score < acc.worstScore
        THEN r.conformance_score ELSE acc.worstScore]

\* The body of the loop of mergeArchReviews.
MergeArchReviewsStep(acc, r) ==
    [allViolations |-> acc.allViolations \o r.violations,
     summaries |-> IF r.summary # <<>> THEN Append(acc.summaries, r.summary) ELSE acc.summaries,
     worstScore |->
        IF r.conformance_score >= 0 /\ r.conformance_score < acc.worstScore
        THEN r.conformance_score ELSE acc.worstScore]

RECURSIVE MergeArchReviewsFrom(_, _, _)
MergeArchReviewsFrom(acc, results, i) ==
    IF i > Len(results) THEN acc
    ELSE MergeArchReviewsFrom(MergeArchReviewsStep(acc, results[i]), results, i + 1)

MergeArchReviews(results) ==
    LET acc == MergeArchReviewsFrom(
                [allViolations |-> <<>>, summaries |-> <<>>, worstScore |-> 100],
                results, 1)
    IN [summary |-> Join(acc.summaries, "\n\n"),
        conformance_score |-> acc.worstScore,
        violations |-> acc.allViolations]

\* ----------------------------------------------------- batchDiffChunks
\* A string is the sequence of its characters. The content of a fragment is
\* a run of "x"; "\n" is the one character join() puts between two contents.

Content(n) == [k \in 1..n |-> "x"]

\* currentBatch holds the contents pushed since the last flush; currentFrom
\* remembers, next to it, the input index of each of them.
BatcherInit ==
    [batches |-> <<>>, currentBatch |-> <<>>, currentFrom |-> <<>>, currentSize |-> 0]

\* batches.push(currentBatch.join("\n")); currentBatch = []; currentSize = 0
Flush(st) ==
    [batches |-> Append(st.batches,
                    [text |-> Join(st.currentBatch, "\n"), from |-> st.currentFrom]),
     currentBatch |-> <<>>,
     currentFrom |-> <<>>,
     currentSize |-> 0]

FlushBeforeUnlessOversized(st, entrySize, maxCharsPerBatch) ==
    IF /\ Len(st.currentBatch) > 0
       /\ entrySize <= maxCharsPerBatch
       /\ st.currentSize + entrySize > maxCharsPerBatch
    THEN Flush(st) ELSE st

FlushBefore(st, entrySize, maxCharsPerBatch) ==
    IF Len(st.currentBatch) > 0 /\ st.currentSize + entrySize > maxCharsPerBatch
    THEN Flush(st) ELSE st

Push(st, fd, i) ==
    [st EXCEPT !.currentBatch = Append(@, fd.content),
               !.currentFrom = Append(@, i),
               !.currentSize = @ + Len(fd.content)]

FlushSolo(st, entrySize, maxCharsPerBatch) ==
    IF entrySize > maxCharsPerBatch THEN Flush(st) ELSE st

\* The body of the loop, for the fragment at index i.
BatchStep(st, fd, i, maxCharsPerBatch) ==
    FlushSolo(Push(FlushBefore(st, Len(fd.content), maxCharsPerBatch), fd, i),
              Len(fd.content), maxCharsPerBatch)

RECURSIVE BatchFrom(_, _, _, _)
BatchFrom(st, fileDiffs, i, maxCharsPerBatch) ==
    IF i > Len(fileDiffs) THEN st
    ELSE BatchFrom(BatchStep(st, fileDiffs[i], i, maxCharsPerBatch),
                   fileDiffs, i + 1, maxCharsPerBatch)

\* Without the flush after the loop.
BatchDiffChunksNoFinalFlush(fileDiffs, maxCharsPerBatch) ==
    BatchFrom(BatcherInit, fileDiffs, 1, maxCharsPerBatch).batches

BatchDiffChunks(fileDiffs, maxCharsPerBatch) ==
    LET st == BatchFrom(BatcherInit, fileDiffs, 1, maxCharsPerBatch) IN
    (IF Len(st.currentBatch) > 0 THEN Flush(st) ELSE st).batches

\* ----------------------------------------------------- splitDiffByFile
\* A diff is the sequence of its pieces of text: the text of a file header,
\* the text "+x" of any other line, and the newline character.

HeaderTexts == {"diff --git a/a.ts b/a.ts", "diff --git a/b.ts b/b.ts"}

HeaderPath(piece) == IF piece = "diff --git a/a.ts b/a.ts" THEN "a.ts" ELSE "b.ts"

Pieces == HeaderTexts \cup {"+x", "\n"}

\* diff.split("\n")
RECURSIVE SplitLines(_)
SplitLines(s) ==
    IF \A k \in 1..Len(s) : s[k] # "\n" THEN <<s>>
    ELSE LET k == Min({j \in 1..Len(s) : s[j] = "\n"}) IN
         <<SubSeq(s, 1, k - 1)>> \o SplitLines(SubSeq(s, k + 1, Len(s)))

\* line.match(/^diff --git a\/.+ b\/(.+)$/): the line starts with the text of
\* a file header.
FileMatch(line) == line # <<>> /\ line[1] \in HeaderTexts

\* fileMatch[1]: what follows the last " b/" of the line.
FileMatch1(line) ==
    LET k == Max({j \in 1..Len(line) : line[j] \in HeaderTexts}) IN
    <<HeaderPath(line[k])>> \o SubSeq(line, k + 1, Len(line))

\* currentFile is a text too; the null it starts with is <<>>, which is as
\* falsy as null is.
SplitterInit == [files |-> <<>>, currentFile |-> <<>>, currentLines |-> <<>>]

FlushFile(st) ==
    IF st.currentFile # <<>> /\ Len(st.currentLines) > 0
    THEN [st EXCEPT !.files =
            Append(@, [file |-> st.currentFile, content |-> Join(st.currentLines, "\n")])]
    ELSE st

SplitStepNoFlush(st, line) ==
    IF FileMatch(line)
    THEN [st EXCEPT !.currentFile = FileMatch1(line), !.currentLines = <<line>>]
    ELSE [st EXCEPT !.currentLines = Append(@, line)]

\* The body of the loop.
SplitStep(st, line) ==
    IF FileMatch(line)
    THEN [FlushFile(st) EXCEPT !.currentFile = FileMatch1(line), !.currentLines = <<line>>]
    ELSE [st EXCEPT !.currentLines = Append(@, line)]

RECURSIVE SplitFrom(_, _, _)
SplitFrom(st, lines, i) ==
    IF i > Len(lines) THEN st ELSE SplitFrom(SplitStep(st, lines[i]), lines, i + 1)

SplitDiffByFile(d) == FlushFile(SplitFrom(SplitterInit, SplitLines(d), 1)).files

\* ------------------------------------------------------------ filterDiffs
\* A file path is the sequence of its directories and the file name, and the
\* file name is the sequence of its parts between dots: "assets/bundle.min.js"
\* is [dirs |-> <<"assets">>, name |-> <<"bundle", "min", "js">>].  What the
\* filter can see of a content is, line by line, whether the line is a
\* "Binary files ... differ" line, a hunk header or a changed line.

LockFileNames ==
    {<<"package-lock", "json">>, <<"yarn", "lock">>, <<"pnpm-lock", "yaml">>}

ExcludedDirectories == {"vendor", "node_modules", "dist", "build", ".next"}

GeneratedMarkers == {"min", "generated"}

\* The basename is exactly a lock-file name.
IsLockFile(file) == file.name \in LockFileNames

\* A vendor, build or dependency directory is a full segment of the path.
InExcludedDirectory(file) ==
    \E k \in 1..Len(file.dirs) : file.dirs[k] \in ExcludedDirectories

\* The name matches *.min.* or *.generated.*: the marker stands between dots.
HasGeneratedMarker(file) ==
    \E k \in 2..(Len(file.name) - 1) : file.name[k] \in GeneratedMarkers

\* "Binary files ... differ" with no textual hunk.
IsBinaryOnly(content) ==
    /\ \E k \in 1..Len(content) : content[k] = "binary"
    /\ \A k \in 1..Len(content) : content[k] # "hunk"

IsExcludedByPath(fd) ==
    \/ IsLockFile(fd.file)
    \/ InExcludedDirectory(fd.file)
    \/ HasGeneratedMarker(fd.file)

\* The rules, tried in their order; the first match excludes.
IsExcluded(fd) ==
    \/ IsLockFile(fd.file)
    \/ InExcludedDirectory(fd.file)
    \/ HasGeneratedMarker(fd.file)
    \/ IsBinaryOnly(fd.content)

FilterStep(out, fd) ==
    IF IsExcluded(fd)
    THEN [out EXCEPT !.excluded = Append(@, fd.file)]
    ELSE [out EXCEPT !.included = Append(@, fd)]

RECURSIVE FilterFrom(_, _, _)
FilterFrom(out, fileDiffs, i) ==
    IF i > Len(fileDiffs) THEN out
    ELSE FilterFrom(FilterStep(out, fileDiffs[i]), fileDiffs, i + 1)

FilterDiffs(fileDiffs) ==
    FilterFrom([included |-> <<>>, excluded |-> <<>>], fileDiffs, 1)

\* ------------------------------------------------------------------ inputs

\* The diff of the buildReviewPayload tests (mockDiff): src/foo.ts with the hunk
\* @@ -1,3 +1,5 @@ and src/bar.ts with the hunk @@ -10,2 +10,4 @@.
MockDiff ==
    << FileHeader("src/foo.ts"), MinusLine, PlusLine, HunkHeader(1, 5),
       SpaceLine, PlusLine, PlusLine, SpaceLine, SpaceLine,
       FileHeader("src/bar.ts"), MinusLine, PlusLine, HunkHeader(10, 4),
       SpaceLine, PlusLine, PlusLine, SpaceLine >>

\* src/foo.ts changed far from line 2: one hunk @@ -100,2 +100,1 @@.
FarHunkDiff ==
    << FileHeader("src/foo.ts"), MinusLine, PlusLine, HunkHeader(100, 1),
       MinusLine, SpaceLine >>

\* src/foo.ts with no hunk at all (a binary file, a mode change).
NoHunkDiff == << FileHeader("src/foo.ts"), TextLine >>

PayloadDiffs == {MockDiff, FarHunkDiff, NoHunkDiff, <<>>}

FindingFiles == {"src/foo.ts", "src/unknown.ts"}

FindingLines == {2, 100}

\* Severity and suggestion of the findings of the model.
\* The suggestion of a finding is optional: Null is the absent one.
FindingShapes ==
    {[severity |-> "critical", suggestion |-> ""],
     [severity |-> "nitpick", suggestion |-> "fix"],
     [severity |-> "warning", suggestion |-> Null]}

\* Findings of every shape on a line of a hunk of mockDiff, and one off the
\* hunks and one on a file that is not in the diff.
Findings ==
    {f \in [file : FindingFiles, line : FindingLines,
            severity : {sh.severity : sh \in FindingShapes},
            suggestion : {sh.suggestion : sh \in FindingShapes}] :
        /\ [severity |-> f.severity, suggestion |-> f.suggestion] \in FindingShapes
        /\ \/ f.file = "src/foo.ts" /\ f.line = 2
           \/ f.file = "src/foo.ts" /\ f.line = 100 /\ f.severity = "nitpick"
           \/ f.file = "src/unknown.ts" /\ f.line = 2 /\ f.severity = "critical"}

\* Violations at line 2: on a hunk of mockDiff, off the hunk of FarHunkDiff.
Violations ==
    {[file |-> f, line |-> 2, severity |-> "warning", suggestion |-> "fix"] :
        f \in FindingFiles}
    \cup {[file |-> "src/foo.ts", line |-> 2, severity |-> "critical", suggestion |-> ""]}

Verdicts == {"approve", "comment", "request_changes"}

\* "other" stands for a verdict outside the three of the type.
ReviewInputs ==
    [summary : {<<"review">>},
     findings : SeqsUpTo(Findings, MaxFindings),
     verdict : Verdicts \cup {"other"}]

\* The test result, the lint result and the excluded files of a call.
PayloadExtras ==
    {[testResult |-> NullResult, lintResult |-> NullResult, excludedFiles |-> <<>>],
     [testResult |-> [success |-> FALSE], lintResult |-> [success |-> TRUE],
      excludedFiles |-> <<"package-lock.json">>]}

ArchInputs ==
    {NullArch} \cup
    [summary : {<<"arch">>}, conformance_score : {80},
     violations : SeqsUpTo(Violations, MaxViolations)]

\* The partial results of the merge functions.
F1 == [file |-> "src/foo.ts", line |-> 2, severity |-> "critical", suggestion |-> ""]

F2 == [file |-> "src/bar.ts", line |-> 11, severity |-> "nitpick", suggestion |-> "fix"]

V1 == [file |-> "src/foo.ts", line |-> 2, severity |-> "warning", suggestion |-> "fix"]

V2 == [file |-> "src/bar.ts", line |-> 11, severity |-> "critical", suggestion |-> ""]

PartialReviews ==
    [summary : {<<>>, <<"part">>},
     findings : {<<>>, <<F1>>, <<F2, F1>>},
     verdict : Verdicts]

\* Scores are 0..100, or the sentinel -1 of a review that could not be parsed.
Scores == {-1, 0, 40, 90, 100}

PartialArchReviews ==
    [summary : {<<>>, <<"part">>},
     conformance_score : Scores,
     violations : {<<>>, <<V1>>, <<V2, V1>>}]

\* The fragments given to batchDiffChunks: paths in three directories, listed
\* here in ascending lexicographic order, and contents of 1, 2 and 4 characters.
SortedBatchPaths == <<"lib/utils/b.ts", "src/handlers/a.ts", "src/handlers/c.ts">>

FragmentSizes == {1, 2, 4}

FileDiffs ==
    [file : {SortedBatchPaths[k] : k \in 1..Len(SortedBatchPaths)},
     content : {Content(n) : n \in FragmentSizes}]

Budgets == {0, 2, 3}

\* The fragments given to filterDiffs: two that no rule matches (one of them
\* with "vendor" inside a longer name, one with a binary line and a hunk), and
\* one for each rule.
TextContent == <<"hunk", "changed">>

BinaryContent == <<"binary">>

MixedContent == <<"binary", "hunk", "changed">>

FilterFragments ==
    {[file |-> [dirs |-> <<"src">>, name |-> <<"vendored-utils", "ts">>],
      content |-> TextContent],
     [file |-> [dirs |-> <<"docs">>, name |-> <<"min", "md">>],
      content |-> MixedContent],
     [file |-> [dirs |-> <<>>, name |-> <<"yarn", "lock">>],
      content |-> TextContent],
     [file |-> [dirs |-> <<"backend", "vendor", "lib">>, name |-> <<"conn", "go">>],
      content |-> TextContent],
     [file |-> [dirs |-> <<"assets">>, name |-> <<"bundle", "min", "js">>],
      content |-> TextContent],
     [file |-> [dirs |-> <<"assets">>, name |-> <<"image", "png">>],
      content |-> BinaryContent]}

\* The payloads handed to postPrReview: those of the reviews with at most one
\* finding, built against the diff with one hunk.
PostPayloads ==
    {BuildReviewPayload([summary |-> <<"review">>, findings |-> fs, verdict |-> v],
                        MockDiff, NullResult, NullResult, NullArch, <<>>) :
        fs \in {<<>>} \cup {<<f>> : f \in Findings}, v \in Verdicts}

\* ------------------------------------------------------------------ state

VARIABLES
    diff,         \* parser: the lines of the diff read so far
    result,       \* parser: Map<string, Set<number>>
    currentFile,  \* parser: string | null
    newLine,      \* parser: the line cursor
    inHunk,       \* parser: boolean
    call,         \* the function this behaviour runs
    pc,           \* "running" until the function has returned, then "done"
    args,         \* the arguments of the call
    ret,          \* the value returned
    tasks,        \* a run: the promise of each batch, in batch order
    completed,    \* a run: the batch indexes in the order in which they settled
    batchResults, \* a run: the results collected for the merge
    merged        \* a run: what the merge function returned

parserVars == <<diff, result, currentFile, newLine, inHunk>>

callVars == <<call, pc, args, ret>>

runVars == <<tasks, completed, batchResults, merged>>

vars ==
    <<diff, result, currentFile, newLine, inHunk, call, pc, args, ret,
      tasks, completed, batchResults, merged>>

parser == [result |-> result, currentFile |-> currentFile, newLine |-> newLine, inHunk |-> inHunk]

NoValue == [none |-> TRUE]

ParserIdle ==
    /\ diff = <<>>
    /\ result = ParserInit.result
    /\ currentFile = ParserInit.currentFile
    /\ newLine = ParserInit.newLine
    /\ inHunk = ParserInit.inHunk

RunIdle ==
    /\ tasks = <<>>
    /\ completed = <<>>
    /\ batchResults = <<>>
    /\ merged = NoValue

\* ---------------------------------------------------- the parser, stepwise
\* The state after n lines is the state in which parseDiffValidLines returns
\* result when the diff has those n lines and no more.

Init ==
    /\ ParserIdle
    /\ RunIdle
    /\ call = "parseDiffValidLines"
    /\ pc = "running"
    /\ args = NoValue
    /\ ret = NoValue

\* The loop body applied to the next line of the input.
ReadLine(line) ==
    /\ call = "parseDiffValidLines"
    /\ Len(diff) < MaxLines
    /\ diff' = Append(diff, line)
    /\ LET st == ParseLine(parser, line) IN
        /\ result' = st.result
        /\ currentFile' = st.currentFile
        /\ newLine' = st.newLine
        /\ inHunk' = st.inHunk
    /\ UNCHANGED callVars
    /\ UNCHANGED runVars

ReadFileHeader == \E p \in Paths : ReadLine(FileHeader(p))

ReadHunkHeader == \E sc \in HunkHeaderValues : ReadLine(HunkHeader(sc[1], sc[2]))

ReadAddition == ReadLine(PlusLine)

ReadDeletion == ReadLine(MinusLine)

ReadContext == ReadLine(SpaceLine)

ReadNoNewline == ReadLine(BackslashLine)

ReadOther == ReadLine(TextLine)

Next ==
    \/ ReadFileHeader
    \/ ReadHunkHeader
    \/ ReadAddition
    \/ ReadDeletion
    \/ ReadContext
    \/ ReadNoNewline
    \/ ReadOther

Spec == Init /\ [][Next]_vars

\* ------------------------------------------- buildReviewPayload, as a call

InitPayload ==
    /\ ParserIdle
    /\ RunIdle
    /\ call = "buildReviewPayload"
    /\ pc = "running"
    /\ args \in {[review |-> r, diff |-> d, testResult |-> x.testResult,
                  lintResult |-> x.lintResult, archReview |-> a,
                  excludedFiles |-> x.excludedFiles] :
                    r \in ReviewInputs, d \in PayloadDiffs, a \in ArchInputs, x \in PayloadExtras}
    /\ ret = NoValue

CallBuildReviewPayload ==
    /\ call = "buildReviewPayload"
    /\ pc = "running"
    /\ ret' = BuildReviewPayload(args.review, args.diff, args.testResult, args.lintResult,
                                 args.archReview, args.excludedFiles)
    /\ pc' = "done"
    /\ UNCHANGED <<call, args>>
    /\ UNCHANGED parserVars
    /\ UNCHANGED runVars

NextPayload == CallBuildReviewPayload

SpecPayload == InitPayload /\ [][NextPayload]_vars

\* ---------------------------- mergeReviews and mergeArchReviews, as calls

InitMerge ==
    /\ ParserIdle
    /\ RunIdle
    /\ pc = "running"
    /\ ret = NoValue
    /\ \/ /\ call = "mergeReviews"
          /\ args \in [results : SeqsUpTo(PartialReviews, MaxPartials)]
       \/ /\ call = "mergeArchReviews"
          /\ args \in [results : SeqsUpTo(PartialArchReviews, MaxPartials)]

CallMergeReviews ==
    /\ call = "mergeReviews"
    /\ pc = "running"
    /\ ret' = MergeReviews(args.results)
    /\ pc' = "done"
    /\ UNCHANGED <<call, args>>
    /\ UNCHANGED parserVars
    /\ UNCHANGED runVars

CallMergeArchReviews ==
    /\ call = "mergeArchReviews"
    /\ pc = "running"
    /\ ret' = MergeArchReviews(args.results)
    /\ pc' = "done"
    /\ UNCHANGED <<call, args>>
    /\ UNCHANGED parserVars
    /\ UNCHANGED runVars

NextMerge == CallMergeReviews \/ CallMergeArchReviews

SpecMerge == InitMerge /\ [][NextMerge]_vars

\* ------------------------------------------------ batchDiffChunks, as a call

InitBatch ==
    /\ ParserIdle
    /\ RunIdle
    /\ call = "batchDiffChunks"
    /\ pc = "running"
    /\ args \in [fileDiffs : SeqsUpTo(FileDiffs, MaxFragments), maxCharsPerBatch : Budgets]
    /\ ret = NoValue

CallBatchDiffChunks ==
    /\ call = "batchDiffChunks"
    /\ pc = "running"
    /\ ret' = BatchDiffChunks(args.fileDiffs, args.maxCharsPerBatch)
    /\ pc' = "done"
    /\ UNCHANGED <<call, args>>
    /\ UNCHANGED parserVars
    /\ UNCHANGED runVars

NextBatch == CallBatchDiffChunks

SpecBatch == InitBatch /\ [][NextBatch]_vars

\* ------------------------------------------------ splitDiffByFile, as a call
\* args.parts are diffs and args.diff is their concatenation, one diff after
\* the other line by line; ret is what splitDiffByFile returns for args.diff.
\* The diffs are written piece by piece, and every state is a call.

SplitCall(parts) ==
    /\ args' = [parts |-> parts, diff |-> Join(parts, "\n")]
    /\ ret' = SplitDiffByFile(Join(parts, "\n"))
    /\ UNCHANGED <<call, pc>>
    /\ UNCHANGED parserVars
    /\ UNCHANGED runVars

InitSplit ==
    /\ ParserIdle
    /\ RunIdle
    /\ call = "splitDiffByFile"
    /\ pc = "done"
    /\ args = [parts |-> <<>>, diff |-> <<>>]
    /\ ret = SplitDiffByFile(<<>>)

\* The call when the last diff has one more piece of text.
ExtendDiff ==
    /\ call = "splitDiffByFile"
    /\ args.parts # <<>>
    /\ Len(args.diff) < MaxDiffChars
    /\ \E c \in Pieces :
        SplitCall([args.parts EXCEPT ![Len(args.parts)] = Append(@, c)])

\* The call when one more diff, empty so far, is concatenated.
ConcatDiff ==
    /\ call = "splitDiffByFile"
    /\ Len(args.diff) + (IF args.parts = <<>> THEN 0 ELSE 1) <= MaxDiffChars
    /\ SplitCall(Append(args.parts, <<>>))

NextSplit == ExtendDiff \/ ConcatDiff

SpecSplit == InitSplit /\ [][NextSplit]_vars

\* ---------------------------------------------------- filterDiffs, as a call

InitFilter ==
    /\ ParserIdle
    /\ RunIdle
    /\ call = "filterDiffs"
    /\ pc = "running"
    /\ args \in [fileDiffs : SeqsUpTo(FilterFragments, MaxFiltered)]
    /\ ret = NoValue

CallFilterDiffs ==
    /\ call = "filterDiffs"
    /\ pc = "running"
    /\ ret' = FilterDiffs(args.fileDiffs)
    /\ pc' = "done"
    /\ UNCHANGED <<call, args>>
    /\ UNCHANGED parserVars
    /\ UNCHANGED runVars

NextFilter == CallFilterDiffs

SpecFilter == InitFilter /\ [][NextFilter]_vars

\* ------------------------------------- run: posting the review, and cleanup
\* The end of run(), from the call of postPrReview to the finally block.  args
\* is the payload built and opts.keep.  ret is what the process has done so
\* far: the gh commands run with their outcome, what GitHub received, the
\* lines written to stdout and to stderr, and whether the temporary directory
\* was removed.  exec() catches every error of the command and returns a
\* result with success false, so postPrReview and postPrComment return
\* normally whatever gh does and the catch block of run() is not entered.

PostStart == [attempts |-> <<>>, github |-> <<>>, stdout |-> <<>>, stderr |-> <<>>,
              cleaned |-> FALSE]

InitPost ==
    /\ ParserIdle
    /\ RunIdle
    /\ call = "run"
    /\ pc = "postPrReview"
    /\ args \in [payload : PostPayloads, keep : BOOLEAN]
    /\ ret = PostStart

PostStep(next, effects) ==
    /\ call = "run"
    /\ pc' = next
    /\ ret' = effects
    /\ UNCHANGED <<call, args>>
    /\ UNCHANGED parserVars
    /\ UNCHANGED runVars

\* gh api repos/.../pulls/N/reviews succeeded.
PostReviewSucceeds ==
    /\ pc = "postPrReview"
    /\ PostStep("returned",
          [ret EXCEPT !.attempts = Append(@, [command |-> "review", success |-> TRUE]),
                      !.github = Append(@, [review |-> args.payload])])

\* if (!result.success): logError, logInfo, then postPrComment(pr, payload.body)
PostReviewFails ==
    /\ pc = "postPrReview"
    /\ PostStep("postPrComment",
          [ret EXCEPT !.attempts = Append(@, [command |-> "review", success |-> FALSE]),
                      !.stderr = @ \o <<[text |-> "Failed to post PR review via API"],
                                        [text |-> "Falling back to posting a simple PR comment..."]>>])

\* gh pr comment N --body body succeeded.
PostCommentSucceeds ==
    /\ pc = "postPrComment"
    /\ PostStep("returned",
          [ret EXCEPT !.attempts = Append(@, [command |-> "comment", success |-> TRUE]),
                      !.github = Append(@, [comment |-> args.payload.body])])

\* if (!result.success): logError, then logInfo("Review output:\n" + body);
\* logInfo writes with console.error.
PostCommentFails ==
    /\ pc = "postPrComment"
    /\ PostStep("returned",
          [ret EXCEPT !.attempts = Append(@, [command |-> "comment", success |-> FALSE]),
                      !.stderr = @ \o <<[text |-> "Failed to post PR comment"],
                                        [text |-> "Review output:", body |-> args.payload.body]>>])

\* postPrReview returned: postSpinner.succeed, then the "Review complete" line.
ReportComplete ==
    /\ pc = "returned"
    /\ PostStep("finally",
          [ret EXCEPT !.stderr = @ \o <<[text |-> "Review posted to GitHub"],
                                        [text |-> "Review complete"]>>])

\* finally, with opts.keep
KeepRepo ==
    /\ pc = "finally"
    /\ args.keep
    /\ PostStep("done", [ret EXCEPT !.stderr = Append(@, [text |-> "Keeping cloned repo"])])

\* finally, without opts.keep: cleanupDir(parentDir)
CleanUp ==
    /\ pc = "finally"
    /\ ~args.keep
    /\ PostStep("done",
          [ret EXCEPT !.stderr = Append(@, [text |-> "Cleaning up temporary files..."]),
                      !.cleaned = TRUE])

NextPost ==
    \/ PostReviewSucceeds
    \/ PostReviewFails
    \/ PostCommentSucceeds
    \/ PostCommentFails
    \/ ReportComplete
    \/ KeepRepo
    \/ CleanUp

SpecPost == InitPost /\ [][NextPost]_vars

\* ------------------- runCodexReview and runArchReview, with many batches
\* The run from the creation of the tasks on. A task is the promise of one
\* batch call: queued in the limiter, running, fulfilled with a review or
\* with null, or rejected.

CodeRun == call = "runCodexReview"

\* What a batch call resolves with when the analysis failed.
NullReview == [null |-> TRUE]

BatchSummaries == <<"part 1", "part 2", "part 3", "part 4", "part 5">>

BatchVerdicts == <<"approve", "request_changes", "comment", "approve", "comment">>

BatchScores == <<90, 40, -1, 70, 100>>

\* The review that the analysis of batch i gives when it succeeds.
BatchReview(i) ==
    IF CodeRun
    THEN [summary |-> <<BatchSummaries[i]>>,
          findings |-> <<[F1 EXCEPT !.line = i]>>,
          verdict |-> BatchVerdicts[i]]
    ELSE [summary |-> <<BatchSummaries[i]>>,
          conformance_score |-> BatchScores[i],
          violations |-> <<[V1 EXCEPT !.line = i]>>]

BuildFallbackReview(testFailed, lintFailed) ==
    [summary |->
        Join(<< <<"AI review could not be completed.">> >>
             \o (IF testFailed THEN << <<"\n**Tests failed:**">> >> ELSE <<>>)
             \o (IF lintFailed THEN << <<"\n**Lint issues:**">> >> ELSE <<>>),
             "\n"),
     findings |-> <<>>,
     verdict |-> "comment"]

BuildFallbackArchReview ==
    [summary |-> <<"Architecture conformance review could not be completed.">>,
     conformance_score |-> -1,
     violations |-> <<>>]

Queued == {i \in 1..Len(tasks) : tasks[i].status = "queued"}

Running == {i \in 1..Len(tasks) : tasks[i].status = "running"}

IsSettled(t) == t.status \in {"fulfilled", "rejected"}

\* The limiter starts a queued call whatever the number of running ones.
CanStartAlways == TRUE

\* pLimit(concurrency): a queued call starts when fewer than concurrency run.
CanStart == Cardinality(Running) < args.concurrency

\* Promise.all in place of Promise.allSettled: resolved when all are fulfilled.
AllFulfilled == \A i \in 1..Len(tasks) : tasks[i].status = "fulfilled"

\* Promise.allSettled(tasks) is resolved when every task has settled,
AllSettled == \A i \in 1..Len(tasks) : IsSettled(tasks[i])

\* The outcomes in the order in which the tasks settled.
SettledAsCompleted == [k \in 1..Len(completed) |-> tasks[completed[k]]]

\* and it resolves with the outcomes in the order of the tasks.
Settled == tasks

\* result.status === "fulfilled" && result.value
Survives(t) == t.status = "fulfilled" /\ t.value # NullReview

RECURSIVE CollectFrom(_, _)
CollectFrom(settled, i) ==
    IF i > Len(settled) THEN <<>>
    ELSE (IF Survives(settled[i]) THEN <<settled[i].value>> ELSE <<>>)
         \o CollectFrom(settled, i + 1)

\* The test for the fallback is left out.
AllBatchesFailedUnchecked == FALSE

\* batchResults.length === 0
AllBatchesFailed == Len(batchResults) = 0

InitRun ==
    /\ ParserIdle
    /\ \/ /\ call = "runCodexReview"
          /\ args \in [batches : 2..MaxBatches, concurrency : 1..MaxConcurrency,
                       testFailed : BOOLEAN, lintFailed : BOOLEAN]
       \/ /\ call = "runArchReview"
          /\ args \in [batches : 2..MaxBatches, concurrency : 1..MaxConcurrency]
    /\ pc = "awaiting"
    /\ ret = NoValue
    /\ tasks = [i \in 1..args.batches |-> [status |-> "queued", value |-> NoValue]]
    /\ completed = <<>>
    /\ batchResults = <<>>
    /\ merged = NoValue

RunStep == call \in {"runCodexReview", "runArchReview"}

\* The limiter starts the calls in the order in which they were queued.
StartBatch ==
    /\ RunStep /\ pc = "awaiting"
    /\ Queued # {}
    /\ CanStart
    /\ tasks' = [tasks EXCEPT ![Min(Queued)].status = "running"]
    /\ UNCHANGED <<completed, batchResults, merged>>
    /\ UNCHANGED callVars
    /\ UNCHANGED parserVars

Settle(i, status, value) ==
    /\ RunStep /\ pc = "awaiting"
    /\ i \in Running
    /\ tasks' = [tasks EXCEPT ![i] = [status |-> status, value |-> value]]
    /\ completed' = Append(completed, i)
    /\ UNCHANGED <<batchResults, merged>>
    /\ UNCHANGED callVars
    /\ UNCHANGED parserVars

\* The analysis of a batch returns a review.
BatchSucceeds == \E i \in 1..Len(tasks) : Settle(i, "fulfilled", BatchReview(i))

\* The analysis of a batch fails or times out: the batch call returns null.
BatchFails == \E i \in 1..Len(tasks) : Settle(i, "fulfilled", NullReview)

\* The batch call throws.
BatchRejects == \E i \in 1..Len(tasks) : Settle(i, "rejected", NoValue)

\* await Promise.allSettled(tasks), and the loop over settled.
CollectResults ==
    /\ RunStep /\ pc = "awaiting"
    /\ AllSettled
    /\ batchResults' = CollectFrom(Settled, 1)
    /\ pc' = "collected"
    /\ UNCHANGED <<tasks, completed, merged>>
    /\ UNCHANGED <<call, args, ret>>
    /\ UNCHANGED parserVars

ReturnFallback ==
    /\ RunStep /\ pc = "collected"
    /\ AllBatchesFailed
    /\ ret' = IF CodeRun THEN BuildFallbackReview(args.testFailed, args.lintFailed)
              ELSE BuildFallbackArchReview
    /\ pc' = "done"
    /\ UNCHANGED runVars
    /\ UNCHANGED <<call, args>>
    /\ UNCHANGED parserVars

MergeResults ==
    /\ RunStep /\ pc = "collected"
    /\ ~AllBatchesFailed
    /\ merged' = IF CodeRun THEN MergeReviews(batchResults) ELSE MergeArchReviews(batchResults)
    /\ pc' = "merged"
    /\ UNCHANGED <<tasks, completed, batchResults>>
    /\ UNCHANGED <<call, args, ret>>
    /\ UNCHANGED parserVars

\* The consolidation call without "if (batchResults.length > 1)".
ConsolidateSummariesAlways ==
    /\ RunStep /\ pc = "merged"
    /\ \E summary \in {<<"consolidated">>, merged.summary} :
        merged' = [merged EXCEPT !.summary = summary]
    /\ pc' = "consolidated"
    /\ UNCHANGED <<tasks, completed, batchResults>>
    /\ UNCHANGED <<call, args, ret>>
    /\ UNCHANGED parserVars

\* merged.summary = await consolidateSummaries(merged.summary, ...): the
\* answer of the consolidation call, or the raw summary when it fails.
ConsolidateSummaries ==
    /\ RunStep /\ pc = "merged"
    /\ Len(batchResults) > 1
    /\ \E summary \in {<<"consolidated">>, merged.summary} :
        merged' = [merged EXCEPT !.summary = summary]
    /\ pc' = "consolidated"
    /\ UNCHANGED <<tasks, completed, batchResults>>
    /\ UNCHANGED <<call, args, ret>>
    /\ UNCHANGED parserVars

ReturnMerged ==
    /\ RunStep
    /\ \/ pc = "merged" /\ Len(batchResults) <= 1
       \/ pc = "consolidated"
    /\ ret' = merged
    /\ pc' = "done"
    /\ UNCHANGED runVars
    /\ UNCHANGED <<call, args>>
    /\ UNCHANGED parserVars

CompleteBatch == BatchSucceeds \/ BatchFails \/ BatchRejects

NextRun ==
    \/ StartBatch
    \/ BatchSucceeds
    \/ BatchFails
    \/ BatchRejects
    \/ CollectResults
    \/ ReturnFallback
    \/ MergeResults
    \/ ConsolidateSummaries
    \/ ReturnMerged

SpecRun == InitRun /\ [][NextRun]_vars

\* Every batch call ends, by its answer or by the timeout of exec, and the
\* limiter and the run go on when they can.
SpecRunFair ==
    /\ InitRun
    /\ [][NextRun]_vars
    /\ WF_vars(StartBatch)
    /\ WF_vars(CompleteBatch)
    /\ WF_vars(CollectResults)
    /\ WF_vars(ReturnFallback)
    /\ WF_vars(MergeResults)
    /\ WF_vars(ConsolidateSummaries)
    /\ WF_vars(ReturnMerged)

\* ------------------------------------------ the diff read so far, described

IsBody(l) == l.kind \in {"plus", "minus", "space", "backslash"}

Numbered(l) == l.kind \in {"plus", "space"}

FileHeadersUpTo(d, i) == {j \in 1..i : d[j].kind = "file"}

\* The path of the last file header at or before line i, Null when there is none.
FileAt(d, i) ==
    IF FileHeadersUpTo(d, i) = {} THEN Null ELSE d[Max(FileHeadersUpTo(d, i))].path

\* The hunk headers that open a hunk: those that follow a file header.
Hunks(d) == {h \in 1..Len(d) : d[h].kind = "hunk" /\ FileAt(d, h) # Null}

HunksOf(d, f) == {h \in Hunks(d) : FileAt(d, h) = f}

\* Line i lies inside the hunk opened at h \in Hunks(d): only hunk body lines
\* from the header to it.
InHunkOf(d, h, i) ==
    /\ h < i
    /\ i <= Len(d)
    /\ \A j \in (h + 1)..i : IsBody(d[j])

HunkBody(d, h) == {i \in (h + 1)..Len(d) : InHunkOf(d, h, i)}

\* The cursor when line i of the hunk opened at h is met: the header's new-start
\* plus one for each addition or context line of the hunk before line i.
CursorAt(d, h, i) ==
    d[h].start + Cardinality({j \in HunkBody(d, h) : j < i /\ Numbered(d[j])})

\* The line numbers the hunk opened at h contributes.
HunkRange(d, h) == {CursorAt(d, h, i) : i \in {j \in HunkBody(d, h) : Numbered(d[j])}}

ExpectedValid(d, f) == UNION {HunkRange(d, h) : h \in HunksOf(d, f)}

ExpectedKeys(d) == {d[j].path : j \in FileHeadersUpTo(d, Len(d))}

LastLine == diff[Len(diff)]

\* The last line read was a hunk body line met inside a hunk.
LastInHunk == \E h \in Hunks(diff) : InHunkOf(diff, h, Len(diff))

\* ------------------------------------------------------------------ claims

\* C2: the set returned for a file holds exactly the cursor values taken at the
\* addition and context lines met inside the hunks of that file, the cursor being
\* set to new-start at each hunk header and growing by 1 at each such line; the
\* keys are the paths of the file headers.
C2_ExactCursorValues ==
    /\ DOMAIN result = ExpectedKeys(diff)
    /\ \A f \in DOMAIN result : result[f] = ExpectedValid(diff, f)

\* C2 witness: additions and context lines of one file have produced three line
\* numbers.
C2_Witness ==
    \E f \in DOMAIN result :
        /\ Cardinality(result[f]) >= 3
        /\ \E i \in 1..Len(diff) : diff[i].kind = "plus"
        /\ \E i \in 1..Len(diff) : diff[i].kind = "space"

\* C3: a deletion line inside a hunk leaves the cursor, the current file, the
\* in-hunk flag and every valid-line set unchanged.
C3_DeletionStep ==
    (/\ Len(diff') = Len(diff) + 1
     /\ diff'[Len(diff')].kind = "minus"
     /\ inHunk
     /\ currentFile # Null)
    => UNCHANGED <<newLine, currentFile, inHunk, result>>

\* The diff of the test "handles deleted lines correctly": hunk @@ -5,5 +5,4 @@.
DeletionTestDiff ==
    << [kind |-> "file", path |-> "file.ts", start |-> 0, count |-> 0],
       MinusLine, PlusLine,
       [kind |-> "hunk", path |-> Null, start |-> 5, count |-> 4],
       SpaceLine, MinusLine, SpaceLine, SpaceLine, SpaceLine >>

\* C3: deletions are a no-op of the parser state, and the hunk +5,4 with one
\* deletion among four context lines yields exactly {5, 6, 7, 8}.
C3_DeletionFrame ==
    /\ [][C3_DeletionStep]_vars
    /\ [](ParseDiffValidLines(DeletionTestDiff) = [p \in {"file.ts"} |-> {5, 6, 7, 8}])

\* C3 witness: a deletion was read inside a hunk and the hunk is still open.
C3_Witness ==
    /\ Len(diff) >= 2
    /\ LastLine.kind = "minus"
    /\ LastInHunk
    /\ inHunk
    /\ \E i \in 1..(Len(diff) - 1) : Numbered(diff[i]) /\ result[currentFile] # {}

\* The hunks of a diff hold only context lines (and no-newline markers).
ContextOnly(d) ==
    \A h \in Hunks(d) : \A i \in HunkBody(d, h) : d[i].kind \in {"space", "backslash"}

\* [new_start, new_start + new_count - 1] of the hunk header at h.
HeaderRange(d, h) == d[h].start .. (d[h].start + d[h].count - 1)

HeaderRanges(d, f) == UNION {HeaderRange(d, h) : h \in HunksOf(d, f)}

\* Each hunk header's new-count is the number of context lines of its hunk.
WellCounted(d) ==
    \A h \in Hunks(d) : d[h].count = Cardinality({i \in HunkBody(d, h) : d[i].kind = "space"})

\* C4 as stated: for every diff whose hunks hold only context lines, each file's
\* set is the union of the ranges [new_start, new_start + new_count - 1] of its
\* hunk headers.
C4_HeaderRangesAnyDiff ==
    ContextOnly(diff) => \A f \in DOMAIN result : result[f] = HeaderRanges(diff, f)

\* C4 amended: the same, for the diffs in which every hunk header's new-count is
\* the number of context lines of its hunk.
C4_HeaderRangesWellCounted ==
    (ContextOnly(diff) /\ WellCounted(diff))
        => \A f \in DOMAIN result : result[f] = HeaderRanges(diff, f)

\* C4 witness: a well-counted hunk of two context lines has been read.
C4_Witness ==
    /\ ContextOnly(diff)
    /\ WellCounted(diff)
    /\ \E f \in DOMAIN result : \E h \in HunksOf(diff, f) :
        /\ diff[h].count = 2
        /\ HeaderRange(diff, h) \subseteq result[f]

\* The hunks of file f that produce a range: those with a numbered line.
RangedHunksOf(d, f) == {h \in HunksOf(d, f) : HunkRange(d, h) # {}}

\* The pairs of such hunks of f with no other one between them.
ConsecutiveHunks(d, f) ==
    {hh \in RangedHunksOf(d, f) \X RangedHunksOf(d, f) :
        /\ hh[1] < hh[2]
        /\ \A h \in RangedHunksOf(d, f) : ~(hh[1] < h /\ h < hh[2])}

\* The last line number of the hunk opened at h.
HunkLast(d, h) ==
    d[h].start + Cardinality({i \in HunkBody(d, h) : Numbered(d[i])}) - 1

\* The numbers between the ranges of two hunks.
Gap(d, h1, h2) == (HunkLast(d, h1) + 1) .. (d[h2].start - 1)

DisjointWithGaps(d, f) ==
    /\ result[f] = UNION {HunkRange(d, h) : h \in HunksOf(d, f)}
    /\ \A h1, h2 \in RangedHunksOf(d, f) :
        h1 # h2 => HunkRange(d, h1) \cap HunkRange(d, h2) = {}
    /\ \A hh \in ConsecutiveHunks(d, f) : Gap(d, hh[1], hh[2]) \cap result[f] = {}

\* Each hunk of f starts after the last line of the hunk of f before it.
Ascending(d, f) ==
    \A hh \in ConsecutiveHunks(d, f) : d[hh[2]].start > HunkLast(d, hh[1])

\* C5 as stated: for every file with several hunks the ranges of its hunks are
\* pairwise disjoint and no number between two consecutive hunks is valid.
C5_DisjointAnyDiff == \A f \in DOMAIN result : DisjointWithGaps(diff, f)

\* C5 amended: the same, for the files whose hunk headers are ascending, each
\* new-start greater than the last line of the hunk before it.
C5_DisjointAscending ==
    \A f \in DOMAIN result : Ascending(diff, f) => DisjointWithGaps(diff, f)

\* C5 witness: two hunks of one file, each with a line, and a gap between them.
C5_Witness ==
    \E f \in DOMAIN result : \E hh \in ConsecutiveHunks(diff, f) :
        /\ Ascending(diff, f)
        /\ HunkRange(diff, hh[1]) # {}
        /\ HunkRange(diff, hh[2]) # {}
        /\ Gap(diff, hh[1], hh[2]) # {}

RECURSIVE OwnLinesFrom(_, _, _)
OwnLinesFrom(d, f, i) ==
    IF i > Len(d) THEN <<>>
    ELSE IF FileAt(d, i) = f THEN <<d[i]>> \o OwnLinesFrom(d, f, i + 1)
    ELSE OwnLinesFrom(d, f, i + 1)

\* The diff d without the lines that do not follow a file header of f.
OwnLines(d, f) == OwnLinesFrom(d, f, 1)

\* A step leaves the set of every file other than the current one as it was, and
\* a file header clears the in-hunk flag.
C6_Step ==
    /\ \A f \in DOMAIN result : f # currentFile' => result'[f] = result[f]
    /\ (Len(diff') = Len(diff) + 1 /\ diff'[Len(diff')].kind = "file")
        => (~inHunk' /\ currentFile' = diff'[Len(diff')].path)

\* C6: the set of a path is the set parseDiffValidLines returns for the lines
\* that follow that path's own file headers alone; no line of one file adds a
\* number to the set of another, and a file header resets in_hunk.
C6_FilesIndependent ==
    /\ [][C6_Step]_vars
    /\ [](\A f \in DOMAIN result : result[f] = ParseDiffValidLines(OwnLines(diff, f))[f])

\* C6 witness: a second file's header was read while a hunk of the first file
\* was open, and a context line read after it was added to no set.
C6_Witness ==
    /\ Cardinality(DOMAIN result) = 2
    /\ Len(diff) = 5
    /\ diff[3].kind = "space"
    /\ diff[4].kind = "file"
    /\ LastLine.kind = "space"
    /\ result[currentFile] = {}
    /\ \E f \in DOMAIN result : f # currentFile /\ result[f] # {}

\* ------------------------------------------------ claims on the payload

PayloadDone == call = "buildReviewPayload" /\ pc = "done"

\* parseDiffValidLines(diff) for the diff of the call.
CallValidLines == ParseDiffValidLines(args.diff)

CallFindings == args.review.findings

CallViolations == IF args.archReview = NullArch THEN <<>> ELSE args.archReview.violations

InDiff(x) == x.file \in DOMAIN CallValidLines

InHunkLine(x) == InDiff(x) /\ x.line \in CallValidLines[x.file]

\* C1: every comment of the payload, built from a finding or from an
\* architecture violation, has a path that is a key of parseDiffValidLines(diff)
\* and a line that is in that key's set.
C1_CommentsOnValidLines ==
    PayloadDone =>
        \A i \in 1..Len(ret.comments) :
            /\ ret.comments[i].path \in DOMAIN CallValidLines
            /\ ret.comments[i].line \in CallValidLines[ret.comments[i].path]

\* C1 witness: a payload with a comment from a finding and one from a violation,
\* built from a review of which a finding was dropped.
C1_Witness ==
    /\ PayloadDone
    /\ \E i \in 1..Len(ret.comments) : ret.comments[i].body.from = "finding"
    /\ \E i \in 1..Len(ret.comments) : ret.comments[i].body.from = "violation"
    /\ \E i \in 1..Len(CallFindings) : ~InHunkLine(CallFindings[i])

\* C7: a finding, of any severity, or a violation whose file is not a key of the
\* valid-line mapping yields no comment: no comment carries its path, and there
\* are at most as many comments as findings and violations whose file is a key.
\* The call returns for every such input (the witness is a returned payload).
C7_UnknownFileDropped ==
    PayloadDone =>
        /\ \A i \in 1..Len(CallFindings) :
            ~InDiff(CallFindings[i]) =>
                \A k \in 1..Len(ret.comments) : ret.comments[k].path # CallFindings[i].file
        /\ \A j \in 1..Len(CallViolations) :
            ~InDiff(CallViolations[j]) =>
                \A k \in 1..Len(ret.comments) : ret.comments[k].path # CallViolations[j].file
        /\ Len(ret.comments) <=
              Cardinality({i \in 1..Len(CallFindings) : InDiff(CallFindings[i])})
            + Cardinality({j \in 1..Len(CallViolations) : InDiff(CallViolations[j])})

\* C7 witness: a critical finding and a violation on a file that is not in a
\* diff with files, next to a finding that was commented.
C7_Witness ==
    /\ PayloadDone
    /\ DOMAIN CallValidLines # {}
    /\ \E i \in 1..Len(CallFindings) :
        ~InDiff(CallFindings[i]) /\ CallFindings[i].severity = "critical"
    /\ \E j \in 1..Len(CallViolations) : ~InDiff(CallViolations[j])
    /\ Len(ret.comments) = 1

\* The indices of the findings that are on a line of a hunk.
KeptFindings == {i \in 1..Len(CallFindings) : InHunkLine(CallFindings[i])}

\* The j-th smallest element of the set K of numbers.
Nth(K, j) == CHOOSE k \in K : Cardinality({x \in K : x <= k}) = j

IsFindingComment(c) == c.body.from = "finding"

\* The review of the end-to-end scenario against mockDiff.
ScenarioReview ==
    [summary |-> <<"review">>,
     findings |->
        << [file |-> "src/foo.ts", line |-> 2, severity |-> "warning", suggestion |-> ""],
           [file |-> "src/foo.ts", line |-> 100, severity |-> "critical", suggestion |-> ""],
           [file |-> "src/unknown.ts", line |-> 5, severity |-> "warning", suggestion |-> ""] >>,
     verdict |-> "request_changes"]

\* C8: the comments built from findings are, in order, one per finding whose
\* file is in the mapping and whose line is in the file's set, and none for the
\* others; the scenario review against mockDiff yields one comment, src/foo.ts:2.
C8_OneCommentPerValidFinding ==
    /\ PayloadDone =>
        LET cs == SelectSeq(ret.comments, IsFindingComment) IN
        /\ Len(cs) = Cardinality(KeptFindings)
        /\ \A j \in 1..Cardinality(KeptFindings) :
            LET f == CallFindings[Nth(KeptFindings, j)] IN
            /\ cs[j].path = f.file
            /\ cs[j].line = f.line
            /\ cs[j].body.severity = f.severity
    /\ LET cs == BuildReviewPayload(ScenarioReview, MockDiff, NullResult, NullResult,
                                  NullArch, <<>>).comments IN
        /\ Len(cs) = 1
        /\ cs[1].path = "src/foo.ts"
        /\ cs[1].line = 2

\* C8 witness: of two findings on a file of the diff, the first is off the
\* hunks and dropped, the second is commented.
C8_Witness ==
    /\ PayloadDone
    /\ Len(CallFindings) = 2
    /\ InDiff(CallFindings[1])
    /\ ~InHunkLine(CallFindings[1])
    /\ InHunkLine(CallFindings[2])
    /\ Len(SelectSeq(ret.comments, IsFindingComment)) = 1

\* ------------------------------------------------- claims on the mergers

MergeReviewsDone == call = "mergeReviews" /\ pc = "done"

MergeArchReviewsDone == call = "mergeArchReviews" /\ pc = "done"

\* approve < comment < request_changes
VerdictRank(v) == IF v = "approve" THEN 0 ELSE IF v = "comment" THEN 1 ELSE 2

PartialVerdicts == {args.results[i].verdict : i \in 1..Len(args.results)}

\* C9: the verdict mergeReviews returns is the maximum of the partial verdicts
\* under approve < comment < request_changes, and approve for the empty list.
C9_WorstVerdict ==
    MergeReviewsDone =>
        IF args.results = <<>> THEN ret.verdict = "approve"
        ELSE /\ ret.verdict \in PartialVerdicts
             /\ \A v \in PartialVerdicts : VerdictRank(v) <= VerdictRank(ret.verdict)

\* C9 witness: the merge of [approve, comment, request_changes], and that of a
\* list whose worst verdict is not its last.
C9_Witness ==
    /\ MergeReviewsDone
    /\ Len(args.results) = 3
    /\ args.results[1].verdict = "request_changes"
    /\ args.results[2].verdict = "approve"
    /\ args.results[3].verdict = "comment"
    /\ ret.verdict = "request_changes"

NonNegativeScores ==
    {args.results[i].conformance_score : i \in 1..Len(args.results)} \cap (0..100)

\* C10: when a partial score is non-negative, mergeArchReviews returns the
\* minimum of the non-negative scores, whatever negative scores there are; for
\* the empty list it returns 100.
C10_MinNonNegativeScore ==
    MergeArchReviewsDone =>
        /\ args.results = <<>> => ret.conformance_score = 100
        /\ NonNegativeScores # {} => ret.conformance_score = Min(NonNegativeScores)

\* C10 witness: the merge of [90, 40, -1] is 40.
C10_Witness ==
    /\ MergeArchReviewsDone
    /\ Len(args.results) = 3
    /\ args.results[1].conformance_score = 90
    /\ args.results[2].conformance_score = 40
    /\ args.results[3].conformance_score = -1
    /\ ret.conformance_score = 40

AllSentinel ==
    /\ args.results # <<>>
    /\ \A i \in 1..Len(args.results) : args.results[i].conformance_score < 0

\* C11: for a non-empty list of partial architecture results whose scores are
\* all the negative sentinel, mergeArchReviews returns the sentinel -1 as the
\* merged score.
C11_AllSentinelGivesSentinel ==
    (MergeArchReviewsDone /\ AllSentinel) => ret.conformance_score = -1

\* ------------------------------------------------ claims on batchDiffChunks

BatchDone == call = "batchDiffChunks" /\ pc = "done"

Oversized(i) == Len(args.fileDiffs[i].content) > args.maxCharsPerBatch

\* The batches that hold the fragment of input index i.
BatchesOf(i) ==
    {b \in 1..Len(ret) : \E k \in 1..Len(ret[b].from) : ret[b].from[k] = i}

SoloOversized(b) == Len(ret[b].from) = 1 /\ Oversized(ret[b].from[1])

\* C13: every batch string returned by batchDiffChunks that is not a single
\* oversized fragment has at most maxCharsPerBatch characters.
C13_BatchWithinBudget ==
    BatchDone =>
        \A b \in 1..Len(ret) :
            ~SoloOversized(b) => Len(ret[b].text) <= args.maxCharsPerBatch

\* The input indexes in the order in which the returned batches hold them.
RECURSIVE PackedFrom(_)
PackedFrom(b) ==
    IF b > Len(ret) THEN <<>> ELSE ret[b].from \o PackedFrom(b + 1)

PathRank(p) == CHOOSE k \in 1..Len(SortedBatchPaths) : SortedBatchPaths[k] = p

PackedPath(k) == args.fileDiffs[PackedFrom(1)[k]].file

\* C14: batchDiffChunks packs the fragments in lexicographic order of their
\* file path whatever the order of its input: in the concatenation of the
\* returned batches no fragment comes after a fragment of a larger path.
C14_PackedInPathOrder ==
    BatchDone =>
        \A j, k \in 1..Len(PackedFrom(1)) :
            j < k => PathRank(PackedPath(j)) <= PathRank(PackedPath(k))

\* ------------------------------------------------ claims on splitDiffByFile

SplitDone == call = "splitDiffByFile" /\ pc = "done"

\* The one fragment of a single-file diff.
FragmentOf(d) == SplitDiffByFile(d)[1]

\* The diff is returned as it is: one fragment whose content is the diff.
RoundTrips(d) ==
    /\ Len(SplitDiffByFile(d)) = 1
    /\ FragmentOf(d).content = d

SingleFile(d) == Len(SplitDiffByFile(d)) = 1

\* C15, as stated: for N diffs each of which splitDiffByFile turns into one
\* fragment, splitDiffByFile of their concatenation returns N fragments, the
\* i-th being the fragment of the i-th diff.
C15_OneFragmentPerDiff ==
    (SplitDone /\ \A i \in 1..Len(args.parts) : SingleFile(args.parts[i])) =>
        /\ Len(ret) = Len(args.parts)
        /\ \A i \in 1..Len(args.parts) : ret[i] = FragmentOf(args.parts[i])

\* C15, amended: for N diffs each of which splitDiffByFile returns as one
\* fragment whose content is the diff itself, splitDiffByFile of their
\* concatenation returns N fragments, the i-th carrying the file path and
\* the lines of the i-th diff.
C15_OneFragmentPerRoundTrippingDiff ==
    (SplitDone /\ \A i \in 1..Len(args.parts) : RoundTrips(args.parts[i])) =>
        /\ Len(ret) = Len(args.parts)
        /\ \A i \in 1..Len(args.parts) :
            /\ ret[i].file = FragmentOf(args.parts[i]).file
            /\ ret[i].content = args.parts[i]

\* C15 witness: a diff of two lines and a diff of one line, for different
\* files, returned as two fragments.
C15_Witness ==
    /\ SplitDone
    /\ args.parts = << <<"diff --git a/a.ts b/a.ts", "\n", "+x">>, <<"diff --git a/b.ts b/b.ts">> >>
    /\ ret = << [file |-> <<"a.ts">>, content |-> args.parts[1]],
                [file |-> <<"b.ts">>, content |-> args.parts[2]] >>

\* ------------------------------------- claims on the merged lists

MergeDone == MergeReviewsDone \/ MergeArchReviewsDone

\* The findings of a code review, the violations of an architecture review.
Items(r) == IF call = "mergeReviews" THEN r.findings ELSE r.violations

RECURSIVE ItemsBefore(_)
ItemsBefore(i) ==
    IF i = 1 THEN 0 ELSE ItemsBefore(i - 1) + Len(Items(args.results[i - 1]))

\* C16: the findings (violations) list returned by mergeReviews
\* (mergeArchReviews) is the concatenation of the partial lists in input
\* order: its length is the sum of the partial lengths, and the j-th element of
\* the i-th partial list is at place j after the elements of the lists before.
C16_ListsConcatenated ==
    MergeDone =>
        /\ Len(Items(ret)) = ItemsBefore(Len(args.results) + 1)
        /\ \A i \in 1..Len(args.results) :
            \A j \in 1..Len(Items(args.results[i])) :
                Items(ret)[ItemsBefore(i) + j] = Items(args.results[i])[j]

\* C16 witness: three partial lists of two, none and one element, merged into
\* a list of three in that order, which is not the order of the severities.
C16_Witness ==
    /\ MergeDone
    /\ Len(args.results) = 3
    /\ Len(Items(args.results[1])) = 2
    /\ Len(Items(args.results[2])) = 0
    /\ Len(Items(args.results[3])) = 1
    /\ Items(ret) = Items(args.results[1]) \o Items(args.results[3])
    /\ Items(ret)[1] # Items(ret)[2]

\* ------------------------------------------------------ claims on the runs

Collected == RunStep /\ pc \in {"collected", "merged", "consolidated", "done"}

\* The batches whose call returned a review.
Survivors == {i \in 1..Len(tasks) : tasks[i].status = "fulfilled" /\ tasks[i].value = BatchReview(i)}

\* The batch a review comes from.
BatchOf(r) == CHOOSE i \in 1..Len(tasks) : BatchReview(i) = r

\* The reviews of a set of batches, by ascending batch index.
RECURSIVE ReviewsOf(_)
ReviewsOf(S) ==
    IF S = {} THEN <<>> ELSE <<BatchReview(Min(S))>> \o ReviewsOf(S \ {Min(S)})

MergeOf(results) == IF CodeRun THEN MergeReviews(results) ELSE MergeArchReviews(results)

\* C17: whatever the order in which the batch calls complete, the list handed
\* to the merge holds the surviving results by ascending batch index, and what
\* the merge returns is a function of the set of surviving batches alone.
C17_MergeInBatchOrder ==
    /\ Collected =>
        /\ Len(batchResults) = Cardinality(Survivors)
        /\ \A k \in 1..Len(batchResults) :
            /\ batchResults[k] \in {BatchReview(i) : i \in Survivors}
            /\ \A j \in 1..(k - 1) : BatchOf(batchResults[j]) < BatchOf(batchResults[k])
    /\ (RunStep /\ pc = "merged") => merged = MergeOf(ReviewsOf(Survivors))

\* C17 witness: a merge of two results whose calls completed in the order
\* opposite to that of their batches.
C17_Witness ==
    /\ RunStep /\ pc = "merged"
    /\ \E j, k \in 1..Len(completed) :
        /\ j < k
        /\ completed[j] > completed[k]
        /\ {completed[j], completed[k]} \subseteq Survivors
    /\ merged.summary # <<>>

\* C18: a batch call that fails or rejects keeps no other batch call from
\* being started and awaited: every batch is started at some time, the run
\* reaches the collection, and the results collected for the merge are those
\* of the batches that succeeded, all of them and no other.
C18_FailuresDoNotAbort ==
    /\ \A i \in 1..MaxBatches : <>(i > Len(tasks) \/ tasks[i].status # "queued")
    /\ <>(pc = "collected")
    /\ [](Collected =>
            /\ \A i \in 1..Len(tasks) : IsSettled(tasks[i])
            /\ {batchResults[k] : k \in 1..Len(batchResults)} = {BatchReview(i) : i \in Survivors}
            /\ Len(batchResults) = Cardinality(Survivors))

\* C18 witness: with a limit of one call at a time the first batch has
\* rejected and the second has failed, and the third, started after them, has
\* given the one result collected.
C18_Witness ==
    /\ RunStep /\ pc = "collected"
    /\ args.concurrency = 1
    /\ Len(tasks) = 3
    /\ tasks[1].status = "rejected"
    /\ tasks[2] = [status |-> "fulfilled", value |-> NullReview]
    /\ batchResults = <<BatchReview(3)>>

FallbackReturned ==
    IF CodeRun
    THEN /\ ret.findings = <<>>
         /\ ret.summary[1] = "AI review could not be completed."
         /\ ret.verdict = "comment"
    ELSE /\ ret.violations = <<>>
         /\ ret.summary = <<"Architecture conformance review could not be completed.">>
         /\ ret.conformance_score = -1

\* C19: when no batch call gives a result, the merge function is not called
\* and the run returns the fallback: no finding (violation), a summary saying
\* that the review could not be completed, verdict comment (score -1).
C19_FallbackWhenAllFail ==
    (Collected /\ Survivors = {}) =>
        /\ merged = NoValue
        /\ pc \in {"collected", "done"}
        /\ pc = "done" => FallbackReturned

\* C19 witness: a run returns after one batch call has rejected and the
\* others have failed.
C19_Witness ==
    /\ RunStep /\ pc = "done"
    /\ Survivors = {}
    /\ \E i \in 1..Len(tasks) : tasks[i].status = "rejected"
    /\ \E i \in 1..Len(tasks) : tasks[i].value = NullReview
    /\ ret # NoValue

C21_EventOfVerdict ==
    PayloadDone =>
        /\ args.review.verdict = "approve" => ret.event = "APPROVE"
        /\ args.review.verdict = "request_changes" => ret.event = "REQUEST_CHANGES"
        /\ args.review.verdict \notin {"approve", "request_changes"} => ret.event = "COMMENT"

\* C21 witness: a payload built from a review whose verdict is none of the
\* three, with a critical finding that has a comment.
C21_Witness ==
    /\ PayloadDone
    /\ args.review.verdict \notin Verdicts
    /\ ret.event = "COMMENT"
    /\ \E i \in 1..Len(ret.comments) : ret.comments[i].body.severity = "critical"

\* The finding or violation a comment was built from.
CommentSources(c) ==
    IF c.body.from = "finding"
    THEN {CallFindings[i] : i \in 1..Len(CallFindings)}
    ELSE {CallViolations[i] : i \in 1..Len(CallViolations)}

CommentOf(c, x) ==
    /\ c.path = x.file
    /\ c.line = x.line
    /\ c.body.severity = x.severity

\* C22: the body of a comment built from a finding or from an architecture
\* violation has a suggestion block exactly when the suggestion is present and
\* not empty: each comment with a block has a source with such a suggestion,
\* each comment without has a source whose suggestion is empty or absent.
C22_SuggestionBlockIffNonEmpty ==
    PayloadDone =>
        \A i \in 1..Len(ret.comments) :
            \E x \in CommentSources(ret.comments[i]) :
                /\ CommentOf(ret.comments[i], x)
                /\ ret.comments[i].body.suggestionBlock <=> x.suggestion \notin {"", Null}

\* C22 witness: a payload with three comments: for a finding with a
\* suggestion, with a block; for a finding without suggestion and for a
\* violation with an empty one, without block.
C22_Witness ==
    /\ PayloadDone
    /\ Len(ret.comments) = 3
    /\ \E i \in 1..3 :
        /\ ret.comments[i].body.from = "finding"
        /\ ret.comments[i].body.severity = "nitpick"
        /\ ret.comments[i].body.suggestionBlock
    /\ \E i \in 1..3 :
        /\ ret.comments[i].body.from = "finding"
        /\ ret.comments[i].body.severity = "warning"
        /\ ~ret.comments[i].body.suggestionBlock
    /\ \E i \in 1..3 :
        /\ ret.comments[i].body.from = "violation"
        /\ ret.comments[i].body.severity = "critical"
        /\ ~ret.comments[i].body.suggestionBlock

\* The count the findings table of the body shows for a severity: that of its
\* row, and 0 when it has no row.
RenderedCount(sev) == IF sev \in DOMAIN ret.body.rows THEN ret.body.rows[sev] ELSE 0

RECURSIVE FindingsOfSeverity(_, _)
FindingsOfSeverity(findings, sev) ==
    IF findings = <<>> THEN 0
    ELSE (IF Head(findings).severity = sev THEN 1 ELSE 0)
         + FindingsOfSeverity(Tail(findings), sev)

\* C23: for each severity the count in the body of the payload is the number
\* of findings of that severity in review.findings, those that have no inline
\* comment because of the diff included.
C23_CountsOverAllFindings ==
    PayloadDone =>
        \A sev \in Severities : RenderedCount(sev) = FindingsOfSeverity(CallFindings, sev)

\* C23 witness: two critical findings, one with a comment and one on a file
\* that is not in the diff, and a count of two in the body.
C23_Witness ==
    /\ PayloadDone
    /\ Len(CallFindings) = 2
    /\ InHunkLine(CallFindings[1]) /\ CallFindings[1].severity = "critical"
    /\ ~InDiff(CallFindings[2]) /\ CallFindings[2].severity = "critical"
    /\ Len(SelectSeq(ret.comments, IsFindingComment)) = 1
    /\ RenderedCount("critical") = 2

\* A call with the verdict of the call at hand and nothing else: no finding,
\* an empty diff, no test, lint or architecture result, no excluded file.
ReferencePayload ==
    BuildReviewPayload([summary |-> <<>>, findings |-> <<>>, verdict |-> args.review.verdict],
                       <<>>, NullResult, NullResult, NullArch, <<>>)

\* C29: the event depends on review.verdict only. Every call returns the
\* event of the reference call of its verdict, so two calls with one verdict
\* return one event, whatever the findings, the diff, the test and lint results,
\* the architecture review and the excluded files are.
C29_EventDependsOnVerdictOnly ==
    PayloadDone => ret.event = ReferencePayload.event

\* C29 witness: a call that approves although it has a critical finding,
\* failed tests, an architecture review with a violation and an excluded file.
C29_Witness ==
    /\ PayloadDone
    /\ args.review.verdict = "approve"
    /\ ret.event = "APPROVE"
    /\ FindingsOfSeverity(CallFindings, "critical") > 0
    /\ ret.body.tests = "failed"
    /\ CallViolations # <<>>
    /\ ret.body.excluded > 0

\* --------------------------------------------------- claims on filterDiffs

FilterDone == call = "filterDiffs" /\ pc = "done"

MatchesARule(fd) ==
    \/ fd.file.name \in LockFileNames
    \/ \E k \in 1..Len(fd.file.dirs) : fd.file.dirs[k] \in ExcludedDirectories
    \/ \E k \in 2..(Len(fd.file.name) - 1) : fd.file.name[k] \in GeneratedMarkers
    \/ IsBinaryOnly(fd.content)

MatchesNoRule(fd) == ~MatchesARule(fd)

PathsOf(fileDiffs) == [k \in 1..Len(fileDiffs) |-> fileDiffs[k].file]

\* C24: filterDiffs returns, in input order, the fragments that match no rule
\* as included and the paths of the fragments that match a rule as excluded:
\* every input fragment is in exactly one of the two lists, once, and a
\* fragment is excluded when its basename is a lock-file name, when an
\* excluded directory is a full segment of its path, when its name carries a
\* generated or minified marker, or when its content is a binary-only diff.
C24_FilterPartitionsInOrder ==
    FilterDone =>
        /\ ret.included = SelectSeq(args.fileDiffs, MatchesNoRule)
        /\ ret.excluded = PathsOf(SelectSeq(args.fileDiffs, MatchesARule))
        /\ Len(ret.included) + Len(ret.excluded) = Len(args.fileDiffs)

\* A list of three where a binary-only fragment stands between a fragment
\* named vendored-utils.ts and a fragment under backend/vendor/lib: the first
\* is included and the other two are excluded, in their order.
C24_Witness ==
    /\ FilterDone
    /\ Len(args.fileDiffs) = 3
    /\ args.fileDiffs[1].file.name = <<"vendored-utils", "ts">>
    /\ IsBinaryOnly(args.fileDiffs[2].content)
    /\ args.fileDiffs[3].file.dirs = <<"backend", "vendor", "lib">>
    /\ Len(ret.included) = 1
    /\ Len(ret.excluded) = 2

\* ------------------------------------------- claims on posting the review

Posting == call = "run"

Failed(command) == [command |-> command, success |-> FALSE]

BothPostsFailed ==
    /\ Posting
    /\ Len(ret.attempts) = 2
    /\ ret.attempts = <<Failed("review"), Failed("comment")>>

\* C25: when posting the review through the API has failed, the next command
\* posts the body as a PR comment; when that has failed too, the review
\* payload has been written to stdout; and the run goes on to the cleanup.
C25_PayloadOnStdoutWhenBothFail ==
    Posting =>
        /\ (ret.attempts # <<>> /\ ret.attempts[1] = Failed("review")
               /\ pc # "postPrComment"
            => Len(ret.attempts) = 2 /\ ret.attempts[2].command = "comment")
        /\ (BothPostsFailed => \E k \in 1..Len(ret.stdout) :
                                    ret.stdout[k] = [payload |-> args.payload])
        /\ (pc = "done" /\ ~args.keep => ret.cleaned)

\* What the code does when both commands have failed: the body alone is
\* written, to stderr, and nothing goes to stdout; the inline comments of
\* the payload are written nowhere.
C25_BodyOnStderrWhenBothFail ==
    BothPostsFailed =>
        /\ ret.stdout = <<>>
        /\ \E k \in 1..Len(ret.stderr) :
              ret.stderr[k] = [text |-> "Review output:", body |-> args.payload.body]
        /\ ret.github = <<>>

C25_Witness ==
    /\ BothPostsFailed
    /\ pc = "done"
    /\ ret.cleaned
    /\ args.payload.comments # <<>>

\* ------------------------------------------- more claims on the parser

\* Line j of d is met inside a hunk: a hunk header that follows a file header
\* stands before it, with hunk body lines only in between.
MetInHunk(d, j) ==
    \E h \in Hunks(d) : h < j /\ \A k \in (h + 1)..(j - 1) : IsBody(d[k])

\* Line j of d is a line of no known kind met inside a hunk.
Terminates(d, j) == d[j].kind = "text" /\ MetInHunk(d, j)

\* A hunk of d was terminated and no hunk header was read since.
Terminated(d) ==
    \E j \in 1..Len(d) :
        /\ Terminates(d, j)
        /\ \A k \in (j + 1)..Len(d) : d[k].kind # "hunk"

\* Every set of the map is what it was; a new key has the empty set.
NoNumberAdded ==
    \A f \in DOMAIN result' :
        result'[f] = IF f \in DOMAIN result THEN result[f] ELSE {}

\* C26: the line of no known kind met inside a hunk, and every line read
\* after it up to the next hunk header, leaves the cursor and the numbers of
\* every set as they were, and the parser is outside a hunk after it.
C26_OtherLineTerminatesHunk ==
    [][(diff' # diff /\ Terminated(diff'))
        => (newLine' = newLine /\ NoNumberAdded /\ ~inHunk')]_vars

\* An addition was numbered, a line of no known kind ended the hunk and the
\* addition read after it has added nothing.
C26_Witness ==
    /\ Len(diff) = 5
    /\ diff[1].kind = "file"
    /\ diff[2].kind = "hunk"
    /\ diff[3].kind = "plus"
    /\ diff[4].kind = "text"
    /\ diff[5].kind = "plus"
    /\ result[diff[1].path] = {diff[2].start}
    /\ ~inHunk

IsMarker(l) == l.kind = "backslash"

NotMarker(l) == ~IsMarker(l)

\* A no-newline marker was met inside a hunk of the diff read so far.
MarkerInHunk ==
    \E j \in 1..Len(diff) : IsMarker(diff[j]) /\ MetInHunk(diff, j)

\* C27: the map, the cursor, the in-hunk flag and the current file after a
\* diff are those after the same diff without its no-newline marker lines.
C27_MarkerIsIgnored ==
    call = "parseDiffValidLines" =>
        parser = ParseFrom(ParserInit, SelectSeq(diff, NotMarker), 1)

\* A marker between two additions of a hunk: the second addition has the
\* number after the first.
C27_Witness ==
    /\ Len(diff) = 5
    /\ diff[1].kind = "file"
    /\ diff[2].kind = "hunk"
    /\ diff[3].kind = "plus"
    /\ diff[4].kind = "backslash"
    /\ diff[5].kind = "plus"
    /\ MarkerInHunk
    /\ result[diff[1].path] = {diff[2].start, diff[2].start + 1}
    /\ inHunk

\* ------------------------------------------- more claims on batchDiffChunks

\* How many times batch b holds the fragment of input index i.
TimesIn(b, i) == Cardinality({k \in 1..Len(ret[b].from) : ret[b].from[k] = i})

ContentsOf(b) == [k \in 1..Len(ret[b].from) |-> args.fileDiffs[ret[b].from[k]].content]

\* C28: every input fragment is in exactly one returned batch, once; every
\* returned batch holds at least one fragment and is the join of the contents
\* it holds; so there are at most as many batches as fragments, and the empty
\* input gives the empty list.
C28_EachFragmentInOneBatch ==
    BatchDone =>
        /\ \A i \in 1..Len(args.fileDiffs) :
              /\ Cardinality(BatchesOf(i)) = 1
              /\ \A b \in BatchesOf(i) : TimesIn(b, i) = 1
        /\ \A b \in 1..Len(ret) :
              /\ Len(ret[b].from) >= 1
              /\ \A k \in 1..Len(ret[b].from) : ret[b].from[k] \in 1..Len(args.fileDiffs)
              /\ ret[b].text = Join(ContentsOf(b), "\n")
        /\ Len(ret) <= Len(args.fileDiffs)
        /\ (args.fileDiffs = <<>> => ret = <<>>)

\* Three fragments in two batches: two packed together and the last, which
\* the loop left accumulated, flushed at the end.
C28_Witness ==
    /\ BatchDone
    /\ Len(args.fileDiffs) = 3
    /\ Len(ret) = 2
    /\ ret[1].from = <<1, 2>>
    /\ ret[2].from = <<3>>
    /\ ~Oversized(3)

\* ------------------------------------------- claims on the consolidation

NonEmptyText(t) == t # <<>>

\* The summaries of the collected results that are not empty, joined with a
\* blank line between them.
RawSummary ==
    Join(SelectSeq([k \in 1..Len(batchResults) |-> batchResults[k].summary], NonEmptyText),
         "\n\n")

\* The step in which the consolidation call returns.
ConsolidationStep == RunStep /\ pc # "consolidated" /\ pc' = "consolidated"

\* The lists and the verdict or score of the merged result are left alone.
MergedKept ==
    IF CodeRun
    THEN merged'.findings = merged.findings /\ merged'.verdict = merged.verdict
    ELSE /\ merged'.violations = merged.violations
         /\ merged'.conformance_score = merged.conformance_score

\* C30: the consolidation call returns only from the state after the merge,
\* and only when more than one batch result was collected; it leaves the
\* merged lists and the merged verdict or score as the merge gave them, and
\* a summary that is not the answer of the call is the blank-line join of
\* the non-empty partial summaries; with one result the merged result is
\* returned as the merge gave it.
C30_ConsolidationKeepsMerge ==
    [][/\ ConsolidationStep =>
            /\ pc = "merged"
            /\ merged = MergeOf(batchResults)
            /\ Len(batchResults) > 1
            /\ Cardinality(Survivors) > 1
            /\ MergedKept
            /\ merged'.summary # <<"consolidated">> => merged'.summary = RawSummary
       /\ (RunStep /\ pc = "merged" /\ pc' = "done") =>
            /\ Len(batchResults) = 1
            /\ ret' = MergeOf(batchResults)
            /\ ret'.summary = RawSummary]_vars

\* The consolidation call failed after two of three batches succeeded: the
\* summary is still the two partial summaries with the blank line between.
C30_Witness ==
    /\ RunStep
    /\ pc = "consolidated"
    /\ Len(tasks) = 3
    /\ Len(batchResults) = 2
    /\ merged.summary = RawSummary
    /\ Len(merged.summary) = 3
    /\ merged = MergeOf(batchResults)

====
